---- MODULE Spec2Model ----
(***************************************************************************)
(* VoxelProps: the voxel engine core (grid, hollow shell extraction,       *)
(* mirroring, mesh generation) of src/VoxelProps.jsx as a state machine.   *)
(* A grid is built by the model builders' setVoxel / drawBox calls, then   *)
(* optionally hollowed, and meshed with or without the symmetry            *)
(* optimization.  JS arrays are 0-based: element i of a JS array is        *)
(* element i+1 of the sequence that models it.                             *)
(***************************************************************************)
EXTENDS Integers, Sequences, FiniteSets, TLC

\* ---- bounds of the model ----
MaxSize == 4
MaxWrites == 1
\* the number of render calls made on one canvas context
MaxRenders == 3

\* inputs of the model builders: the material id of a box, the values and
\* the coordinates of the single-voxel writes (0 erases)
BoxColors == {5}
WriteValues == {0, 1}
Window == {0, 1}

VARIABLES pc, grid, hollow, hollow2, mesh, meshArg, probe, writes,
          call, scene, canvas, heap, scan, shots

vars == <<pc, grid, hollow, hollow2, mesh, meshArg, probe, writes,
          call, scene, canvas, heap, scan, shots>>

\* ---- Uint8Array ----
Byte == 256

\* new Uint8Array(n): n zero-filled cells, indexed 0..n-1
Uint8Array(n) == [i \in 0..(n - 1) |-> 0]

\* Statement sequencing: the value v of one statement is computed before
\* the rest of the loop, F, runs on it.
Seq2(v, F(_)) == CHOOSE r \in {F(w) : w \in {v}} : TRUE

\* ---- VoxelEngine ----
createGrid(size) ==
  [data |-> Uint8Array(size * size * size), size |-> size, symmetric |-> FALSE]

InRange(g, x, y, z) ==
  /\ x >= 0 /\ x < g.size
  /\ y >= 0 /\ y < g.size
  /\ z >= 0 /\ z < g.size

Index(size, x, y, z) == x + y * size + z * size * size

\* a store that clamps a value to 0..255, as a Uint8ClampedArray does
setVoxel_Saturating(g, x, y, z, value) ==
  IF InRange(g, x, y, z)
    THEN [g EXCEPT !.data[Index(g.size, x, y, z)] =
                     IF value < 0 THEN 0
                     ELSE IF value >= Byte THEN Byte - 1 ELSE value]
    ELSE g

\* a store of 4-bit cells
setVoxel_Nibble(g, x, y, z, value) ==
  IF InRange(g, x, y, z)
    THEN [g EXCEPT !.data[Index(g.size, x, y, z)] = value % 16]
    ELSE g

\* a write that moves an out-of-range coordinate to the nearest cell
setVoxel_Clamped(g, x, y, z, value) ==
  LET clamp(c) == IF c < 0 THEN 0 ELSE IF c >= g.size THEN g.size - 1 ELSE c
  IN IF g.size > 0
       THEN [g EXCEPT !.data[Index(g.size, clamp(x), clamp(y), clamp(z))] =
                        value % Byte]
       ELSE g

setVoxel(g, x, y, z, value) ==
  IF InRange(g, x, y, z)
    THEN [g EXCEPT !.data[Index(g.size, x, y, z)] = value % Byte]
    ELSE g

getVoxel(g, x, y, z) ==
  IF InRange(g, x, y, z) THEN g.data[Index(g.size, x, y, z)] ELSE 0

\* isInterior with the check of the neighbour below in z left out
isInterior_FiveSides(g, x, y, z) ==
  /\ getVoxel(g, x + 1, y, z) # 0
  /\ getVoxel(g, x - 1, y, z) # 0
  /\ getVoxel(g, x, y + 1, z) # 0
  /\ getVoxel(g, x, y - 1, z) # 0
  /\ getVoxel(g, x, y, z + 1) # 0

\* isInterior that looks at the neighbours in y and z only
isInterior_IgnoresX(g, x, y, z) ==
  /\ getVoxel(g, x, y + 1, z) # 0
  /\ getVoxel(g, x, y - 1, z) # 0
  /\ getVoxel(g, x, y, z + 1) # 0
  /\ getVoxel(g, x, y, z - 1) # 0

\* isInterior that also asks for the voxel itself to be nonzero
isInterior_NeedsVoxel(g, x, y, z) ==
  /\ getVoxel(g, x, y, z) # 0
  /\ getVoxel(g, x + 1, y, z) # 0
  /\ getVoxel(g, x - 1, y, z) # 0
  /\ getVoxel(g, x, y + 1, z) # 0
  /\ getVoxel(g, x, y - 1, z) # 0
  /\ getVoxel(g, x, y, z + 1) # 0
  /\ getVoxel(g, x, y, z - 1) # 0

isInterior(g, x, y, z) ==
  /\ getVoxel(g, x + 1, y, z) # 0
  /\ getVoxel(g, x - 1, y, z) # 0
  /\ getVoxel(g, x, y + 1, z) # 0
  /\ getVoxel(g, x, y - 1, z) # 0
  /\ getVoxel(g, x, y, z + 1) # 0
  /\ getVoxel(g, x, y, z - 1) # 0

\* kept / (kept + removed) in IEEE-754 arithmetic: 0/0 is NaN; any other
\* quotient is kept as the exact fraction num/den
Ratio(kept, removed) ==
  IF kept + removed = 0
    THEN [nan |-> TRUE, num |-> 0, den |-> 0]
    ELSE [nan |-> FALSE, num |-> kept, den |-> kept + removed]

\* HollowCell that writes a fixed material instead of the voxel's
HollowCell_DropsMaterial(g, x, y, z, acc) ==
  LET voxel == getVoxel(g, x, y, z)
  IN IF voxel # 0
       THEN IF ~isInterior(g, x, y, z)
              THEN [acc EXCEPT !.data[Index(g.size, x, y, z)] = 1,
                               !.kept = @ + 1]
              ELSE [acc EXCEPT !.removed = @ + 1]
       ELSE acc

\* HollowCell with the interior test inverted
HollowCell_Inverted(g, x, y, z, acc) ==
  LET voxel == getVoxel(g, x, y, z)
  IN IF voxel # 0
       THEN IF isInterior(g, x, y, z)
              THEN [acc EXCEPT !.data[Index(g.size, x, y, z)] = voxel,
                               !.kept = @ + 1]
              ELSE [acc EXCEPT !.removed = @ + 1]
       ELSE acc

\* a loop body that always keeps the first voxel it meets
HollowCell_KeepsFirst(g, x, y, z, acc) ==
  LET voxel == getVoxel(g, x, y, z)
  IN IF voxel # 0
       THEN IF ~isInterior(g, x, y, z) \/ acc.kept + acc.removed = 0
              THEN [acc EXCEPT !.data[Index(g.size, x, y, z)] = voxel,
                               !.kept = @ + 1]
              ELSE [acc EXCEPT !.removed = @ + 1]
       ELSE acc

\* the body of hollowGrid's innermost loop, acc = [data, removed, kept]
HollowCell(g, x, y, z, acc) ==
  LET voxel == getVoxel(g, x, y, z)
  IN IF voxel # 0
       THEN IF ~isInterior(g, x, y, z)
              THEN [acc EXCEPT !.data[Index(g.size, x, y, z)] = voxel,
                               !.kept = @ + 1]
              ELSE [acc EXCEPT !.removed = @ + 1]
       ELSE acc

\* for (let x = 0; x < size; x++)
RECURSIVE HollowX(_, _, _, _, _)
HollowX(g, x, y, z, acc) ==
  IF x >= g.size THEN acc
  ELSE Seq2(HollowCell(g, x, y, z, acc),
            LAMBDA a : HollowX(g, x + 1, y, z, a))

\* for (let y = 0; y < size; y++)
RECURSIVE HollowY(_, _, _, _)
HollowY(g, y, z, acc) ==
  IF y >= g.size THEN acc
  ELSE Seq2(HollowX(g, 0, y, z, acc), LAMBDA a : HollowY(g, y + 1, z, a))

\* for (let z = 0; z < size; z++)
RECURSIVE HollowZ(_, _, _)
HollowZ(g, z, acc) ==
  IF z >= g.size THEN acc
  ELSE Seq2(HollowY(g, 0, z, acc), LAMBDA a : HollowZ(g, z + 1, a))

hollowGrid(g) ==
  LET r == HollowZ(g, 0, [data |-> Uint8Array(g.size * g.size * g.size),
                          removed |-> 0, kept |-> 0])
  IN [data |-> r.data,
      size |-> g.size,
      symmetric |-> g.symmetric,
      stats |-> [removed |-> r.removed, kept |-> r.kept,
                 ratio |-> Ratio(r.kept, r.removed)]]

\* a mirror pass that copies empty cells too (a dense overlay)
MirrorCell_CopiesEmpty(g, x, y, z) ==
  LET voxel == getVoxel(g, x, y, z)
  IN setVoxel(g, g.size - 1 - x, y, z, voxel)

\* the body of mirrorGrid's innermost loop
MirrorCell(g, x, y, z) ==
  LET voxel == getVoxel(g, x, y, z)
  IN IF voxel # 0
       THEN setVoxel(g, g.size - 1 - x, y, z, voxel)
       ELSE g

\* for (let x = 0; x < center; x++)
RECURSIVE MirrorX(_, _, _, _, _)
MirrorX(g, x, y, z, center) ==
  IF x >= center THEN g
  ELSE Seq2(MirrorCell(g, x, y, z),
            LAMBDA g2 : MirrorX(g2, x + 1, y, z, center))

\* for (let y = 0; y < size; y++)
RECURSIVE MirrorY(_, _, _, _)
MirrorY(g, y, z, center) ==
  IF y >= g.size THEN g
  ELSE Seq2(MirrorX(g, 0, y, z, center),
            LAMBDA g2 : MirrorY(g2, y + 1, z, center))

\* for (let z = 0; z < size; z++)
RECURSIVE MirrorZ(_, _, _)
MirrorZ(g, z, center) ==
  IF z >= g.size THEN g
  ELSE Seq2(MirrorY(g, 0, z, center), LAMBDA g2 : MirrorZ(g2, z + 1, center))

mirrorGrid(g) ==
  IF ~g.symmetric THEN g ELSE MirrorZ(g, 0, g.size \div 2)

\* isFaceVisible that takes a face on the grid boundary for occluded
isFaceVisible_InRangeOnly(g, x, y, z, dx, dy, dz) ==
  /\ InRange(g, x + dx, y + dy, z + dz)
  /\ getVoxel(g, x + dx, y + dy, z + dz) = 0

isFaceVisible(g, x, y, z, dx, dy, dz) ==
  getVoxel(g, x + dx, y + dy, z + dz) = 0

\* faceTemplates: normal and the 4 vertex offsets of each face
faceTemplates ==
  [top    |-> [normal |-> <<0, 1, 0>>,
               verts |-> << <<0,1,0>>, <<1,1,0>>, <<1,1,1>>, <<0,1,1>> >>],
   bottom |-> [normal |-> <<0, -1, 0>>,
               verts |-> << <<0,0,1>>, <<1,0,1>>, <<1,0,0>>, <<0,0,0>> >>],
   front  |-> [normal |-> <<0, 0, 1>>,
               verts |-> << <<0,0,1>>, <<0,1,1>>, <<1,1,1>>, <<1,0,1>> >>],
   back   |-> [normal |-> <<0, 0, -1>>,
               verts |-> << <<1,0,0>>, <<1,1,0>>, <<0,1,0>>, <<0,0,0>> >>],
   right  |-> [normal |-> <<1, 0, 0>>,
               verts |-> << <<1,0,1>>, <<1,1,1>>, <<1,1,0>>, <<1,0,0>> >>],
   left   |-> [normal |-> <<-1, 0, 0>>,
               verts |-> << <<0,0,0>>, <<0,1,0>>, <<0,1,1>>, <<0,0,1>> >>]]

\* faceChecks, in the order the code visits them
faceChecks ==
  << [face |-> "top",    dx |-> 0,  dy |-> 1,  dz |-> 0],
     [face |-> "bottom", dx |-> 0,  dy |-> -1, dz |-> 0],
     [face |-> "front",  dx |-> 0,  dy |-> 0,  dz |-> 1],
     [face |-> "back",   dx |-> 0,  dy |-> 0,  dz |-> -1],
     [face |-> "right",  dx |-> 1,  dy |-> 0,  dz |-> 0],
     [face |-> "left",   dx |-> -1, dy |-> 0,  dz |-> 0] >>

\* Math.ceil(size / 2)
CeilHalf(size) == (size + 1) \div 2

\* a face emitter that gives the fourth corner of a quad the next colour id
EmitFace_OddCorner(g, x, y, z, voxel, fc, m) ==
  IF isFaceVisible(g, x, y, z, fc.dx, fc.dy, fc.dz)
    THEN LET template == faceTemplates[fc.face]
             baseIndex == Len(m.vertices) \div 3
             v == template.verts
         IN [vertices |-> m.vertices \o
               << x + v[1][1], y + v[1][2], z + v[1][3],
                  x + v[2][1], y + v[2][2], z + v[2][3],
                  x + v[3][1], y + v[3][2], z + v[3][3],
                  x + v[4][1], y + v[4][2], z + v[4][3] >>,
             faces |-> m.faces \o
               << baseIndex, baseIndex + 1, baseIndex + 2,
                  baseIndex, baseIndex + 2, baseIndex + 3 >>,
             colors |-> m.colors \o << voxel, voxel, voxel, voxel + 1 >>]
    ELSE m

\* a face emitter that takes the length of the coordinate array for the
\* number of vertices
EmitFace_FlatBase(g, x, y, z, voxel, fc, m) ==
  IF isFaceVisible(g, x, y, z, fc.dx, fc.dy, fc.dz)
    THEN LET template == faceTemplates[fc.face]
             baseIndex == Len(m.vertices)
             v == template.verts
         IN [vertices |-> m.vertices \o
               << x + v[1][1], y + v[1][2], z + v[1][3],
                  x + v[2][1], y + v[2][2], z + v[2][3],
                  x + v[3][1], y + v[3][2], z + v[3][3],
                  x + v[4][1], y + v[4][2], z + v[4][3] >>,
             faces |-> m.faces \o
               << baseIndex, baseIndex + 1, baseIndex + 2,
                  baseIndex, baseIndex + 2, baseIndex + 3 >>,
             colors |-> m.colors \o << voxel, voxel, voxel, voxel >>]
    ELSE m

\* the body of faceChecks.forEach for one face of voxel (x,y,z);
\* m = [vertices, faces, colors] are the arrays built so far
EmitFace(g, x, y, z, voxel, fc, m) ==
  IF isFaceVisible(g, x, y, z, fc.dx, fc.dy, fc.dz)
    THEN LET template == faceTemplates[fc.face]
             baseIndex == Len(m.vertices) \div 3
             v == template.verts
         IN [vertices |-> m.vertices \o
               << x + v[1][1], y + v[1][2], z + v[1][3],
                  x + v[2][1], y + v[2][2], z + v[2][3],
                  x + v[3][1], y + v[3][2], z + v[3][3],
                  x + v[4][1], y + v[4][2], z + v[4][3] >>,
             faces |-> m.faces \o
               << baseIndex, baseIndex + 1, baseIndex + 2,
                  baseIndex, baseIndex + 2, baseIndex + 3 >>,
             colors |-> m.colors \o << voxel, voxel, voxel, voxel >>]
    ELSE m

RECURSIVE EmitFaces(_, _, _, _, _, _, _)
EmitFaces(g, x, y, z, voxel, k, m) ==
  IF k > Len(faceChecks)
    THEN m
    ELSE Seq2(EmitFace(g, x, y, z, voxel, faceChecks[k], m),
              LAMBDA m2 : EmitFaces(g, x, y, z, voxel, k + 1, m2))

\* the body of generateMesh's innermost loop
MeshCell(g, x, y, z, m) ==
  LET voxel == getVoxel(g, x, y, z)
  IN IF voxel = 0 THEN m ELSE EmitFaces(g, x, y, z, voxel, 1, m)

\* for (let x = 0; x < xEnd; x++)
RECURSIVE MeshX(_, _, _, _, _, _)
MeshX(g, x, y, z, xEnd, m) ==
  IF x >= xEnd THEN m
  ELSE Seq2(MeshCell(g, x, y, z, m),
            LAMBDA m2 : MeshX(g, x + 1, y, z, xEnd, m2))

\* for (let y = 0; y < size; y++)
RECURSIVE MeshY(_, _, _, _, _)
MeshY(g, y, z, xEnd, m) ==
  IF y >= g.size THEN m
  ELSE Seq2(MeshX(g, 0, y, z, xEnd, m),
            LAMBDA m2 : MeshY(g, y + 1, z, xEnd, m2))

\* for (let z = 0; z < size; z++)
RECURSIVE MeshZ(_, _, _, _)
MeshZ(g, z, xEnd, m) ==
  IF z >= g.size THEN m
  ELSE Seq2(MeshY(g, 0, z, xEnd, m), LAMBDA m2 : MeshZ(g, z + 1, xEnd, m2))

\* MirrorMesh with the grid mirror's reflection size - 1 - x
MirrorMesh_GridFormula(size, m) ==
  LET originalVertCount == Len(m.vertices) \div 3
      originalFaceCount == Len(m.faces)
      mirroredVerts ==
        [j \in 1..(3 * originalVertCount) |->
           IF j % 3 = 1 THEN size - 1 - m.vertices[j] ELSE m.vertices[j]]
      mirroredColors == [j \in 1..originalVertCount |-> m.colors[j]]
      mirroredFaces ==
        [j \in 1..originalFaceCount |->
           IF j % 3 = 1 THEN m.faces[j] + originalVertCount
           ELSE IF j % 3 = 2 THEN m.faces[j + 1] + originalVertCount
           ELSE m.faces[j - 1] + originalVertCount]
  IN [vertices |-> m.vertices \o mirroredVerts,
      faces |-> m.faces \o mirroredFaces,
      colors |-> m.colors \o mirroredColors]

\* a mirror block that keeps the winding of the triangles it duplicates
MirrorMesh_SameWinding(size, m) ==
  LET originalVertCount == Len(m.vertices) \div 3
      originalFaceCount == Len(m.faces)
      mirroredVerts ==
        [j \in 1..(3 * originalVertCount) |->
           IF j % 3 = 1 THEN size - m.vertices[j] ELSE m.vertices[j]]
      mirroredColors == [j \in 1..originalVertCount |-> m.colors[j]]
      mirroredFaces ==
        [j \in 1..originalFaceCount |-> m.faces[j] + originalVertCount]
  IN [vertices |-> m.vertices \o mirroredVerts,
      faces |-> m.faces \o mirroredFaces,
      colors |-> m.colors \o mirroredColors]

\* the mirror block: duplicate the vertices reflected in x, copy their
\* colours, duplicate the triangles with reversed winding
MirrorMesh(size, m) ==
  LET originalVertCount == Len(m.vertices) \div 3
      originalFaceCount == Len(m.faces)
      mirroredVerts ==
        [j \in 1..(3 * originalVertCount) |->
           IF j % 3 = 1 THEN size - m.vertices[j] ELSE m.vertices[j]]
      mirroredColors == [j \in 1..originalVertCount |-> m.colors[j]]
      mirroredFaces ==
        [j \in 1..originalFaceCount |->
           IF j % 3 = 1 THEN m.faces[j] + originalVertCount
           ELSE IF j % 3 = 2 THEN m.faces[j + 1] + originalVertCount
           ELSE m.faces[j - 1] + originalVertCount]
  IN [vertices |-> m.vertices \o mirroredVerts,
      faces |-> m.faces \o mirroredFaces,
      colors |-> m.colors \o mirroredColors]

generateMesh(g, useSymmetryOptimization) ==
  LET xEnd == IF g.symmetric /\ useSymmetryOptimization
                THEN CeilHalf(g.size) ELSE g.size
      scanned == MeshZ(g, 0, xEnd,
                       [vertices |-> <<>>, faces |-> <<>>, colors |-> <<>>])
      m == IF g.symmetric /\ useSymmetryOptimization
             THEN MirrorMesh(g.size, scanned) ELSE scanned
  IN [vertices |-> m.vertices, faces |-> m.faces, colors |-> m.colors,
      size |-> g.size, symmetric |-> g.symmetric]

\* ---- Renderer ----
\* the 3D normal render computes for lighting from the object-space
\* vertices of triangle (i0, i1, i2), before normalization
normal(m, i0, i1, i2) ==
  LET p0 == << m.vertices[i0 * 3 + 1], m.vertices[i0 * 3 + 2],
               m.vertices[i0 * 3 + 3] >>
      p1 == << m.vertices[i1 * 3 + 1], m.vertices[i1 * 3 + 2],
               m.vertices[i1 * 3 + 3] >>
      p2 == << m.vertices[i2 * 3 + 1], m.vertices[i2 * 3 + 2],
               m.vertices[i2 * 3 + 3] >>
      e1 == << p1[1] - p0[1], p1[2] - p0[2], p1[3] - p0[3] >>
      e2 == << p2[1] - p0[1], p2[2] - p0[2], p2[3] - p0[3] >>
  IN << e1[2] * e2[3] - e1[3] * e2[2],
        e1[3] * e2[1] - e1[1] * e2[3],
        e1[1] * e2[2] - e1[2] * e2[1] >>

\* ---- ColorPalettes ----
\* the material ids that have an entry in each table of ColorPalettes; an
\* entry is written [name, id] and stands for its base, highlight and shadow
ColorPalettes == [default |-> 1..17, cyberpunk |-> 1..17, retro |-> 1..17]

\* property names that every object inherits from Object.prototype: for
\* these ColorPalettes[palette] is an inherited function, which is truthy
\* and has no entry at any material id
Inherited == {"constructor", "toString", "valueOf", "hasOwnProperty"}

\* const colorPalette = ColorPalettes[palette] || ColorPalettes.default
colorPalette(palette) ==
  IF palette \in DOMAIN ColorPalettes
    THEN [name |-> palette, ids |-> ColorPalettes[palette]]
    ELSE IF palette \in Inherited
      THEN [name |-> palette, ids |-> {}]
      ELSE [name |-> "default", ids |-> ColorPalettes.default]

\* the value undefined, where an entry is expected
Undefined == [name |-> "undefined", id |-> 0]

\* const colors = colorPalette[face.colorIndex] || colorPalette[1]
colors(pal, colorIndex) ==
  IF colorIndex \in pal.ids THEN [name |-> pal.name, id |-> colorIndex]
  ELSE IF 1 \in pal.ids THEN [name |-> pal.name, id |-> 1]
  ELSE Undefined

\* ---- Matrix ----
\* Matrix.transformPoint(m, p); m is the 16-element array, p a 3-tuple.
\* The transforms drawn below make w divide the three numerators.
transformPoint(m, p) ==
  LET w == m[13] * p[1] + m[14] * p[2] + m[15] * p[3] + m[16]
  IN << (m[1] * p[1] + m[2] * p[2] + m[3] * p[3] + m[4]) \div w,
        (m[5] * p[1] + m[6] * p[2] + m[7] * p[3] + m[8]) \div w,
        (m[9] * p[1] + m[10] * p[2] + m[11] * p[3] + m[12]) \div w >>

\* ---- Renderer.render ----
\* transformedVerts: the screen position and depth of vertex i (0-based);
\* width and height are even
transformedVerts(m, transform, options) ==
  [i \in 0..((Len(m.vertices) \div 3) - 1) |->
     LET p == transformPoint(transform,
                << m.vertices[3 * i + 1], m.vertices[3 * i + 2],
                   m.vertices[3 * i + 3] >>)
     IN [x |-> ((p[1] + 1) * options.width) \div 2,
         y |-> ((1 - p[2]) * options.height) \div 2,
         z |-> p[3]]]

\* const cross = ax * by - ay * bx
cross(tv, i0, i1, i2) ==
  LET ax == tv[i1].x - tv[i0].x
      ay == tv[i1].y - tv[i0].y
      bx == tv[i2].x - tv[i0].x
      by == tv[i2].y - tv[i0].y
  IN ax * by - ay * bx

\* Math.sqrt on the squared lengths that occur: those of the normals of
\* unit quads, which are 0 or 1 (the integer root in general)
Sqrt(n) == CHOOSE r \in 0..n : r * r <= n /\ (r + 1) * (r + 1) > n

\* if (len > 0) { normal[0] /= len; ... }
Normalized(n) ==
  LET len == Sqrt(n[1] * n[1] + n[2] * n[2] + n[3] * n[3])
  IN IF len > 0 THEN << n[1] \div len, n[2] \div len, n[3] \div len >> ELSE n

\* the record render pushes on faceList for triangle k (0-based) of the
\* mesh. intensity and ambient are in tenths; z is v0.z + v1.z + v2.z, three
\* times the average depth, which orders faces as the average does.
Face(m, tv, options, k) ==
  LET i0 == m.faces[3 * k + 1]
      i1 == m.faces[3 * k + 2]
      i2 == m.faces[3 * k + 3]
      n == Normalized(normal(m, i0, i1, i2))
      d == n[1] * options.lightDir[1] + n[2] * options.lightDir[2]
             + n[3] * options.lightDir[3]
      dot == IF d > 0 THEN d ELSE 0
  IN [verts |-> << tv[i0], tv[i1], tv[i2] >>,
      z |-> tv[i0].z + tv[i1].z + tv[i2].z,
      intensity |-> options.ambient + (10 - options.ambient) * dot,
      colorIndex |-> IF (i0 + 1) \in DOMAIN m.colors /\ m.colors[i0 + 1] # 0
                       THEN m.colors[i0 + 1] ELSE 1,
      indices |-> << i0, i1, i2 >>]

\* if (cross < 0) continue
Culled(m, tv, k) ==
  cross(tv, m.faces[3 * k + 1], m.faces[3 * k + 2], m.faces[3 * k + 3]) < 0

\* the face list before the depth sort: the triangles that are not culled,
\* in mesh order
faceList(m, tv, options) ==
  LET all == [j \in 1..(Len(m.faces) \div 3) |-> j - 1]
      kept == SelectSeq(all, LAMBDA k : ~Culled(m, tv, k))
  IN [j \in 1..Len(kept) |-> Face(m, tv, options, kept[j])]

\* a depth sort that paints the nearest face first
sort_Ascending(f) ==
  LET n == Len(f)
      rank == [i \in 1..n |->
                 Cardinality({ j \in 1..n :
                   \/ f[j].z < f[i].z
                   \/ f[j].z = f[i].z /\ j < i }) + 1]
  IN [p \in 1..n |-> f[CHOOSE i \in 1..n : rank[i] = p]]

\* faceList.sort((a, b) => b.z - a.z): descending z; Array.prototype.sort
\* is stable, so faces of equal z keep their order
sort(f) ==
  LET n == Len(f)
      rank == [i \in 1..n |->
                 Cardinality({ j \in 1..n :
                   \/ f[j].z > f[i].z
                   \/ f[j].z = f[i].z /\ j < i }) + 1]
  IN [p \in 1..n |-> f[CHOOSE i \in 1..n : rank[i] = p]]

\* the fill style of a face: Renderer.lerpColor(c1, c2, t) kept as its
\* arguments, t in tenths
fillStyle(face, entry) ==
  IF face.intensity < 5
    THEN [name |-> entry.name, id |-> entry.id,
          c1 |-> "shadow", c2 |-> "base", t |-> face.intensity * 2]
    ELSE [name |-> entry.name, id |-> entry.id,
          c1 |-> "base", c2 |-> "highlight", t |-> (face.intensity - 5) * 2]

\* an edge key that tells a-b from b-a
EdgeKey_Directed(a, b) == << a, b >>

\* const key = a < b ? `${a}-${b}` : `${b}-${a}`; the text of two indices
\* around a dash is read back as the pair
EdgeKey(a, b) == IF a < b THEN << a, b >> ELSE << b, a >>

\* the edges of the faces of f in the order the wireframe loop visits them
Edges(f) ==
  [p \in 1..(3 * Len(f)) |->
     LET face == f[((p - 1) \div 3) + 1]
         e == (p - 1) % 3
     IN << face.indices[e + 1], face.indices[((e + 1) % 3) + 1] >>]

\* the stroke calls of the wireframe loop: an edge is stroked unless its key
\* is in drawnEdges, that is unless an earlier edge has the same key
Strokes(f, tv) ==
  LET edges == Edges(f)
      keys == [p \in 1..Len(edges) |-> EdgeKey(edges[p][1], edges[p][2])]
      first == [k \in { keys[p] : p \in 1..Len(edges) } |->
                  CHOOSE p \in 1..Len(edges) :
                    /\ keys[p] = k
                    /\ \A q \in 1..(p - 1) : keys[q] # k]
      idx == [p \in 1..Len(edges) |-> p]
      kept == SelectSeq(idx, LAMBDA p : first[keys[p]] = p)
  IN [j \in 1..Len(kept) |->
        [a |-> edges[kept[j]][1], b |-> edges[kept[j]][2],
         from |-> tv[edges[kept[j]][1]], to |-> tv[edges[kept[j]][2]]]]

\* a render that strokes the wireframe before it fills the faces
drawCalls_WireFirst(fills, strokes) ==
  [j \in 1..Len(strokes) |-> <<"stroke", <<strokes[j].a, strokes[j].b>> >>]
    \o [j \in 1..Len(fills) |-> <<"fill", fills[j].indices>>]

\* the fill() and stroke() calls made on ctx, in the order of the call:
\* the showFaces block (lines 605-626) runs to its end before the wireframe
\* block (lines 629-653) starts
drawCalls(fills, strokes) ==
  [j \in 1..Len(fills) |-> <<"fill", fills[j].indices>>]
    \o [j \in 1..Len(strokes) |-> <<"stroke", <<strokes[j].a, strokes[j].b>> >>]

\* Renderer.render(ctx, mesh, transform, options): the fill calls and the
\* stroke calls made on ctx with their arguments, whether the call threw,
\* and the draw calls in the order they were issued. Reading colors.shadow of undefined throws
\* a TypeError, which ends the call.
render(m, transform, options) ==
  IF Len(m.vertices) = 0
    THEN [fills |-> <<>>, strokes |-> <<>>, threw |-> FALSE, calls |-> <<>>]
    ELSE
      LET pal == colorPalette(options.palette)
          tv == transformedVerts(m, transform, options)
          f == sort(faceList(m, tv, options))
          bad == { j \in 1..Len(f) : colors(pal, f[j].colorIndex) = Undefined }
          stop == IF bad = {} THEN Len(f) + 1
                  ELSE CHOOSE j \in bad : \A j2 \in bad : j <= j2
          threw == options.showFaces /\ bad # {}
          fills ==
            IF options.showFaces
              THEN [j \in 1..(stop - 1) |->
                      [indices |-> f[j].indices, verts |-> f[j].verts,
                       z |-> f[j].z,
                       style |-> fillStyle(f[j], colors(pal, f[j].colorIndex))]]
              ELSE <<>>
          strokes ==
            IF options.wireframe /\ ~threw THEN Strokes(f, tv) ELSE <<>>
      IN [fills |-> fills, strokes |-> strokes, threw |-> threw,
          calls |-> drawCalls(fills, strokes)]

\* ---- model builders ----
\* drawBox; b = the scaled loop bounds [x1, y1, z1, x2, y2, z2]
RECURSIVE BoxZ(_, _, _, _, _, _)
BoxZ(g, x, y, z, b, color) ==
  IF z >= b.z2 THEN g
  ELSE Seq2(setVoxel(g, x, y, z, color),
            LAMBDA g2 : BoxZ(g2, x, y, z + 1, b, color))

RECURSIVE BoxY(_, _, _, _, _)
BoxY(g, x, y, b, color) ==
  IF y >= b.y2 THEN g
  ELSE Seq2(BoxZ(g, x, y, b.z1, b, color),
            LAMBDA g2 : BoxY(g2, x, y + 1, b, color))

RECURSIVE BoxX(_, _, _, _)
BoxX(g, x, b, color) ==
  IF x >= b.x2 THEN g
  ELSE Seq2(BoxY(g, x, b.y1, b, color), LAMBDA g2 : BoxX(g2, x + 1, b, color))

drawBox(g, b, color) == BoxX(g, b.x1, b, color)

\* ---- state machine ----
NoGrid == createGrid(0)
NoHollow ==
  [data |-> <<>>, size |-> 0, symmetric |-> FALSE,
   stats |-> [removed |-> 0, kept |-> 0,
              ratio |-> [nan |-> FALSE, num |-> 0, den |-> 1]]]
NoMesh ==
  [vertices |-> <<>>, faces |-> <<>>, colors |-> <<>>,
   size |-> 0, symmetric |-> FALSE]
NoArg == [src |-> "none", useSymmetry |-> FALSE]
NoProbe == [x |-> 0, y |-> 0, z |-> 0, result |-> FALSE,
            size |-> 0, self |-> 0, around |-> <<0, 0, 0, 0, 0, 0>>]

\* the cell of g at (x,y,z) as stored, 0 outside the grid
Cell(g, x, y, z) ==
  IF x \in 0..(g.size - 1) /\ y \in 0..(g.size - 1) /\ z \in 0..(g.size - 1)
    THEN g.data[x + g.size * (y + g.size * z)]
    ELSE 0

\* the 6 cells around (x,y,z)
Around(g, x, y, z) ==
  << Cell(g, x + 1, y, z), Cell(g, x - 1, y, z), Cell(g, x, y + 1, z),
     Cell(g, x, y - 1, z), Cell(g, x, y, z + 1), Cell(g, x, y, z - 1) >>

\* no VoxelEngine call recorded yet; prev is the call before, as Args gives it
NoCall == [op |-> "none", x |-> 0, y |-> 0, z |-> 0, value |-> 0,
           threw |-> FALSE, before |-> NoGrid,
           prev |-> <<"none", 0, 0, 0, 0>>]
Args(c) == <<c.op, c.x, c.y, c.z, c.value>>

\* nothing rendered yet
NoScene ==
  [transform |-> <<>>,
   options |-> [width |-> 0, height |-> 0, wireframe |-> FALSE,
                showFaces |-> FALSE, palette |-> "default",
                lightDir |-> <<0, 0, 0>>, ambient |-> 0]]
NoCanvas ==
  [fills |-> <<>>, strokes |-> <<>>, threw |-> FALSE, calls |-> <<>>]

\* no grid object allocated yet: objs are the grid objects, bufs the
\* Uint8Array buffers their data fields refer to; input and output are the
\* argument and the result of the call op (0: none); pre and post are the
\* contents of the argument before the call and of the result after it
NoHeap ==
  [objs |-> <<>>, bufs |-> <<>>, input |-> 0, output |-> 0, op |-> "none",
   pre |-> NoGrid, post |-> NoGrid, touched |-> "none"]

\* no scan of hollowGrid's cells under way
NoScan ==
  [g |-> NoGrid, split |-> 0, pos |-> <<0, 0>>, last |-> -1,
   reordered |-> FALSE,
   acc |-> [data |-> <<>>, removed |-> 0, kept |-> 0]]

Init ==
  /\ pc = "idle"
  /\ grid = NoGrid
  /\ hollow = NoHollow
  /\ hollow2 = NoHollow
  /\ mesh = NoMesh
  /\ meshArg = NoArg
  /\ probe = NoProbe
  /\ writes = 0
  /\ call = NoCall
  /\ scene = NoScene
  /\ canvas = NoCanvas
  /\ heap = NoHeap
  /\ scan = NoScan
  /\ shots = <<>>

\* let grid = VoxelEngine.createGrid(resolution)
CreateGrid(size) ==
  /\ pc = "idle"
  /\ grid' = createGrid(size)
  /\ call' = [op |-> "createGrid", x |-> size, y |-> 0, z |-> 0, value |-> 0,
              threw |-> FALSE, before |-> grid, prev |-> Args(call)]
  /\ pc' = "box"
  /\ UNCHANGED <<hollow, hollow2, mesh, meshArg, probe, writes,
               scene, canvas,
               heap, scan, shots>>

\* a model builder fills the centred box margin..size-margin-1 on every
\* axis, as VoxelModels.cube does (no cell when 2 * margin >= size)
DrawBox(margin, color) ==
  /\ pc = "box"
  /\ grid' = drawBox(grid, [x1 |-> margin, y1 |-> margin, z1 |-> margin,
                            x2 |-> grid.size - margin,
                            y2 |-> grid.size - margin,
                            z2 |-> grid.size - margin], color)
  /\ pc' = "build"
  /\ UNCHANGED <<hollow, hollow2, mesh, meshArg, probe, writes,
               call, scene, canvas,
               heap, scan, shots>>

\* a model builder writes one voxel
SetVoxel(x, y, z, value) ==
  /\ pc = "build"
  /\ writes < MaxWrites
  /\ grid' = setVoxel(grid, x, y, z, value)
  /\ writes' = writes + 1
  /\ UNCHANGED <<pc, hollow, hollow2, mesh, meshArg, probe,
               call, scene, canvas,
               heap, scan, shots>>

\* a non-symmetric model (cube, sphere) returns the grid
FinishPlain ==
  /\ pc = "build"
  /\ pc' = "built"
  /\ UNCHANGED <<grid, hollow, hollow2, mesh, meshArg, probe, writes,
               call, scene, canvas,
               heap, scan, shots>>

\* a symmetric model: grid.symmetric = true ... mirrorGrid(grid)
FinishSymmetric ==
  /\ pc = "build"
  /\ grid' = mirrorGrid([grid EXCEPT !.symmetric = TRUE])
  /\ pc' = "built"
  /\ UNCHANGED <<hollow, hollow2, mesh, meshArg, probe, writes,
               call, scene, canvas,
               heap, scan, shots>>

\* VoxelEngine.isInterior(grid, x, y, z); the answer is recorded with the
\* cells it is about, and the grid is dropped
IsInterior(x, y, z) ==
  /\ pc = "built"
  /\ probe' = [x |-> x, y |-> y, z |-> z,
               result |-> isInterior(grid, x, y, z),
               size |-> grid.size,
               self |-> Cell(grid, x, y, z),
               around |-> Around(grid, x, y, z)]
  /\ pc' = "probed"
  /\ grid' = NoGrid
  /\ writes' = 0
  /\ UNCHANGED <<hollow, hollow2, mesh, meshArg,
               call, scene, canvas,
               heap, scan, shots>>

\* const hollowResult = VoxelEngine.hollowGrid(grid)
HollowGrid ==
  /\ pc = "built"
  /\ hollow' = hollowGrid(grid)
  /\ pc' = "hollowed"
  /\ UNCHANGED <<grid, hollow2, mesh, meshArg, probe, writes,
               call, scene, canvas,
               heap, scan, shots>>

\* a second pass over the reducer's own output
HollowAgain ==
  /\ pc = "hollowed"
  /\ hollow2' = hollowGrid(hollow)
  /\ pc' = "rehollowed"
  /\ UNCHANGED <<grid, hollow, mesh, meshArg, probe, writes,
               call, scene, canvas,
               heap, scan, shots>>

\* VoxelEngine.generateMesh(grid, useSymmetry) on the model's grid or on
\* the hollowed grid
GenerateMesh(useSymmetry) ==
  /\ pc \in {"built", "hollowed"}
  /\ mesh' = generateMesh(IF pc = "built" THEN grid ELSE hollow, useSymmetry)
  /\ meshArg' = [src |-> IF pc = "built" THEN "grid" ELSE "hollow",
                 useSymmetry |-> useSymmetry]
  /\ pc' = "meshed"
  /\ UNCHANGED <<grid, hollow, hollow2, probe, writes,
               call, scene, canvas,
               heap, scan, shots>>

\* the inputs changed: the pipeline starts over
Reset ==
  /\ pc \in {"meshed", "rehollowed", "probed", "read", "rendered",
            "h_done", "h_after", "scanned", "repeated"}
  /\ pc' = "idle"
  /\ grid' = NoGrid
  /\ hollow' = NoHollow
  /\ hollow2' = NoHollow
  /\ mesh' = NoMesh
  /\ meshArg' = NoArg
  /\ probe' = NoProbe
  /\ writes' = 0
  /\ call' = NoCall
  /\ scene' = NoScene
  /\ canvas' = NoCanvas
  /\ heap' = NoHeap
  /\ scan' = NoScan
  /\ shots' = <<>>

Next ==
  \/ \E size \in 1..MaxSize : CreateGrid(size)
  \/ \E margin \in 0..((grid.size + 1) \div 2), color \in BoxColors :
       DrawBox(margin, color)
  \/ \E x \in Window, y \in Window, z \in Window, value \in WriteValues :
       SetVoxel(x, y, z, value)
  \/ FinishPlain
  \/ FinishSymmetric
  \/ \E x \in 0..(grid.size - 1), y \in 0..(grid.size - 1),
        z \in 0..(grid.size - 1) : IsInterior(x, y, z)
  \/ HollowGrid
  \/ HollowAgain
  \/ \E useSymmetry \in BOOLEAN : GenerateMesh(useSymmetry)
  \/ Reset

Spec == Init /\ [][Next]_vars


\* ---- rendering a mesh ----
\* Matrix.identity(), Matrix.translate(x, y, z)
identity == << 1, 0, 0, 0,  0, 1, 0, 0,  0, 0, 1, 0,  0, 0, 0, 1 >>
translate(x, y, z) == << 1, 0, 0, x,  0, 1, 0, y,  0, 0, 1, z,  0, 0, 0, 1 >>

\* the transforms render is given: the identity, a translation, a view from
\* the front right top (x + z, y + z) and a half turn about the y axis
Transforms ==
  { identity,
    translate(-1, -1, -1),
    << 1, 0, 1, 0,  0, 1, 1, 0,  0, 0, 1, 0,  0, 0, 0, 1 >>,
    << -1, 0, 0, 0,  0, 1, 0, 0,  0, 0, -1, 0,  0, 0, 0, 1 >> }

\* palette names: two tables, a name without a table, an inherited name
PaletteNames == {"default", "retro", "neon", "constructor"}

\* light along +z or +y
LightDirs == { <<0, 0, 1>>, <<0, 1, 0>> }

\* the options of a render call; ambient: 0.3
RenderOptions ==
  [width : {4}, height : {2}, wireframe : BOOLEAN, showFaces : BOOLEAN,
   palette : PaletteNames, lightDir : LightDirs, ambient : {3}]

\* grid sizes and box colours of the rendered models; 18 has no palette entry
RenderSizes == {1, 2}
RenderColors == {5, 18}

\* Renderer.render(ctx, mesh, transform, {...})
Render(transform, options) ==
  /\ pc = "meshed"
  /\ scene' = [transform |-> transform, options |-> options]
  /\ canvas' = render(mesh, transform, options)
  /\ pc' = "rendered"
  /\ UNCHANGED <<grid, hollow, hollow2, mesh, meshArg, probe, writes, call,
               heap, scan, shots>>

NextRender ==
  \/ \E size \in RenderSizes : CreateGrid(size)
  \/ \E margin \in {0, 1}, color \in RenderColors : DrawBox(margin, color)
  \/ FinishPlain
  \/ GenerateMesh(FALSE)
  \/ \E transform \in Transforms, options \in RenderOptions :
       Render(transform, options)
  \/ Reset

SpecRender == Init /\ [][NextRender]_vars

\* ---- calling the grid primitives ----
\* grid sizes, coordinates (in and out of range) and values of direct calls
GridSizes == {0, 1, 2}
GridCoords == {-1, 0, 1, 2}
GridValues == {-1, 0, 1, 255, 256, 511}

\* VoxelEngine.setVoxel(grid, x, y, z, value), the call recorded with the
\* grid it was given; the function has no throw statement
WriteVoxel(x, y, z, value) ==
  /\ pc = "build"
  /\ grid' = setVoxel(grid, x, y, z, value)
  /\ call' = [op |-> "setVoxel", x |-> x, y |-> y, z |-> z, value |-> value,
              threw |-> FALSE, before |-> grid, prev |-> Args(call)]
  /\ pc' = "written"
  /\ UNCHANGED <<hollow, hollow2, mesh, meshArg, probe, writes, scene, canvas,
               heap, scan, shots>>

\* VoxelEngine.getVoxel(grid, x, y, z), the call recorded with its result
ReadVoxel(x, y, z) ==
  /\ pc = "written"
  /\ call' = [op |-> "getVoxel", x |-> x, y |-> y, z |-> z,
              value |-> getVoxel(grid, x, y, z),
              threw |-> FALSE, before |-> grid, prev |-> Args(call)]
  /\ pc' = "read"
  /\ UNCHANGED <<grid, hollow, hollow2, mesh, meshArg, probe, writes,
                 scene, canvas,
               heap, scan, shots>>

NextGrid ==
  \/ \E size \in GridSizes : CreateGrid(size)
  \/ \E margin \in {0, 1}, color \in BoxColors : DrawBox(margin, color)
  \/ \E x \in GridCoords, y \in GridCoords, z \in GridCoords,
        value \in GridValues : WriteVoxel(x, y, z, value)
  \/ \E x \in GridCoords, y \in GridCoords, z \in GridCoords :
       ReadVoxel(x, y, z)
  \/ Reset

SpecGrid == Init /\ [][NextGrid]_vars

\* ---- grid objects and their buffers ----
\* the grid object o of heap h read as a value
Deref(h, o) ==
  [data |-> h.bufs[h.objs[o].data], size |-> h.objs[o].size,
   symmetric |-> h.objs[o].symmetric]

\* a new buffer holding data and a new grid object that refers to it:
\* return { data: new Uint8Array(...), size, symmetric }
Allocate(h, data, size, symmetric) ==
  [h EXCEPT !.bufs = Append(@, data),
            !.objs = Append(@, [data |-> Len(h.bufs) + 1, size |-> size,
                                symmetric |-> symmetric])]

\* writes through object o: its buffer holds the data of g afterwards, and
\* its flag is that of g
Store(h, o, g) ==
  [h EXCEPT !.bufs[h.objs[o].data] = g.data,
            !.objs[o].symmetric = g.symmetric]

\* a hollowGrid that clears the interior cells in the buffer it was given
\* and returns an object on that buffer
hollowGridRef_InPlace(h, o) ==
  LET r == hollowGrid(Deref(h, o))
      h2 == [h EXCEPT !.bufs[h.objs[o].data] = r.data,
                      !.objs = Append(@, [data |-> h.objs[o].data,
                                          size |-> r.size,
                                          symmetric |-> r.symmetric])]
  IN [h2 EXCEPT !.input = o, !.output = Len(h2.objs), !.op = "hollowGrid",
                !.pre = Deref(h, o), !.post = Deref(h2, Len(h2.objs))]

\* hollowGrid(grid): reads grid through getVoxel and isInterior, writes the
\* buffer it allocated (const hollow = new Uint8Array(...)) and returns a
\* new object
hollowGridRef(h, o) ==
  LET r == hollowGrid(Deref(h, o))
      h2 == Allocate(h, r.data, r.size, r.symmetric)
  IN [h2 EXCEPT !.input = o, !.output = Len(h2.objs), !.op = "hollowGrid",
                !.pre = Deref(h, o), !.post = Deref(h2, Len(h2.objs))]

\* grid.symmetric = true; mirrorGrid(grid): setVoxel writes the buffer of
\* the object given, and that object is returned
mirrorGridRef(h, o) ==
  LET h2 == Store(h, o, mirrorGrid([Deref(h, o) EXCEPT !.symmetric = TRUE]))
  IN [h2 EXCEPT !.input = o, !.output = o, !.op = "mirrorGrid",
                !.pre = Deref(h, o), !.post = Deref(h2, o)]

\* generateMesh(grid, ...): reads grid through getVoxel; its arrays are new
generateMeshRef(h, o) ==
  [h EXCEPT !.input = o, !.output = 0, !.op = "generateMesh",
            !.pre = Deref(h, o), !.post = NoGrid]

\* sizes of the grid objects
HeapSizes == {2, 3}

\* let grid = VoxelEngine.createGrid(resolution)
HeapCreate(size) ==
  /\ pc = "idle"
  /\ heap' = [Allocate(heap, createGrid(size).data, size, FALSE)
                EXCEPT !.input = 1]
  /\ pc' = "h_new"
  /\ UNCHANGED <<grid, hollow, hollow2, mesh, meshArg, probe, writes,
                 call, scene, canvas, scan, shots>>

\* a model builder fills the whole grid object, as drawBox does
HeapBox(color) ==
  /\ pc = "h_new"
  /\ heap' = Store(heap, 1,
               drawBox(Deref(heap, 1),
                       [x1 |-> 0, y1 |-> 0, z1 |-> 0,
                        x2 |-> heap.objs[1].size, y2 |-> heap.objs[1].size,
                        z2 |-> heap.objs[1].size], color))
  /\ pc' = "h_box"
  /\ UNCHANGED <<grid, hollow, hollow2, mesh, meshArg, probe, writes,
                 call, scene, canvas, scan, shots>>

\* VoxelEngine.setVoxel on the argument or on the result of the call made:
\* once before the call (on the argument), once after it
HeapSet(which, x, y, z, value) ==
  /\ \/ pc = "h_box" /\ which = "input" /\ pc' = "h_ready"
     \/ pc = "h_done" /\ heap.output # 0 /\ pc' = "h_after"
  /\ LET o == IF which = "input" THEN heap.input ELSE heap.output
     IN heap' = [Store(heap, o, setVoxel(Deref(heap, o), x, y, z, value))
                   EXCEPT !.touched = IF pc = "h_done" THEN which ELSE "none"]
  /\ UNCHANGED <<grid, hollow, hollow2, mesh, meshArg, probe, writes,
                 call, scene, canvas, scan, shots>>

\* const hollowResult = VoxelEngine.hollowGrid(grid)
HeapHollow ==
  /\ pc \in {"h_box", "h_ready"}
  /\ heap' = hollowGridRef(heap, heap.input)
  /\ pc' = "h_done"
  /\ UNCHANGED <<grid, hollow, hollow2, mesh, meshArg, probe, writes,
                 call, scene, canvas, scan, shots>>

\* grid.symmetric = true; ... VoxelEngine.mirrorGrid(grid)
HeapMirror ==
  /\ pc \in {"h_box", "h_ready"}
  /\ heap' = mirrorGridRef(heap, heap.input)
  /\ pc' = "h_done"
  /\ UNCHANGED <<grid, hollow, hollow2, mesh, meshArg, probe, writes,
                 call, scene, canvas, scan, shots>>

\* VoxelEngine.generateMesh(grid, useSymmetry)
HeapMesh(useSymmetry) ==
  /\ pc \in {"h_box", "h_ready"}
  /\ mesh' = generateMesh(Deref(heap, heap.input), useSymmetry)
  /\ heap' = generateMeshRef(heap, heap.input)
  /\ pc' = "h_done"
  /\ UNCHANGED <<grid, hollow, hollow2, meshArg, probe, writes,
                 call, scene, canvas, scan, shots>>

NextHeap ==
  \/ \E size \in HeapSizes : HeapCreate(size)
  \/ \E color \in BoxColors : HeapBox(color)
  \/ \E which \in {"input", "output"}, x \in Window, y \in Window,
        z \in Window, value \in WriteValues : HeapSet(which, x, y, z, value)
  \/ HeapHollow
  \/ HeapMirror
  \/ \E useSymmetry \in BOOLEAN : HeapMesh(useSymmetry)
  \/ Reset

SpecHeap == Init /\ [][NextHeap]_vars

\* ---- scanning the cells of hollowGrid in another order ----
\* grid sizes of the scans, and the ways the cells (by linear index
\* x + y*size + z*size*size) are split between two workers: 1 the lower
\* and the upper half, 2 the even and the odd indices, 3 as 1 with the
\* second worker going downwards
ScanSizes == {3}
Splits == {1, 2, 3}

\* the number of cells of worker w, and the index of its k-th cell (k from 0)
Share(n, split, w) ==
  IF split = 2
    THEN IF w = 1 THEN (n + 1) \div 2 ELSE n \div 2
    ELSE IF w = 1 THEN n \div 2 ELSE n - (n \div 2)
CellOf(n, split, w, k) ==
  IF split = 2 THEN 2 * k + (w - 1)
  ELSE IF w = 1 THEN k
  ELSE IF split = 1 THEN (n \div 2) + k
  ELSE n - 1 - k

\* the scan starts: const hollow = new Uint8Array(size * size * size);
\* let removed = 0; let kept = 0
StartScan(split) ==
  /\ pc = "built"
  /\ scan' = [g |-> grid, split |-> split, pos |-> <<0, 0>>, last |-> -1,
              reordered |-> FALSE,
              acc |-> [data |-> Uint8Array(grid.size * grid.size * grid.size),
                       removed |-> 0, kept |-> 0]]
  /\ pc' = "scanning"
  /\ UNCHANGED <<grid, hollow, hollow2, mesh, meshArg, probe, writes,
                 call, scene, canvas, heap, shots>>

\* worker w runs the loop body on its next cell
VisitCell(w) ==
  /\ pc = "scanning"
  /\ LET n == scan.g.size * scan.g.size * scan.g.size
         size == scan.g.size
     IN /\ scan.pos[w] < Share(n, scan.split, w)
        /\ LET i == CellOf(n, scan.split, w, scan.pos[w])
           IN scan' = [scan EXCEPT
                         !.acc = HollowCell(scan.g, i % size,
                                            (i \div size) % size,
                                            i \div (size * size), @),
                         !.pos[w] = @ + 1,
                         !.last = i,
                         !.reordered = @ \/ i < scan.last]
  /\ UNCHANGED <<pc, grid, hollow, hollow2, mesh, meshArg, probe, writes,
                 call, scene, canvas, heap, shots>>

\* every cell was visited: return { data: hollow, size, symmetric, stats }
FinishScan ==
  /\ pc = "scanning"
  /\ LET n == scan.g.size * scan.g.size * scan.g.size
     IN /\ scan.pos[1] = Share(n, scan.split, 1)
        /\ scan.pos[2] = Share(n, scan.split, 2)
  /\ hollow' = [data |-> scan.acc.data, size |-> scan.g.size,
                symmetric |-> scan.g.symmetric,
                stats |-> [removed |-> scan.acc.removed,
                           kept |-> scan.acc.kept,
                           ratio |-> Ratio(scan.acc.kept, scan.acc.removed)]]
  /\ pc' = "scanned"
  /\ UNCHANGED <<grid, hollow2, mesh, meshArg, probe, writes,
                 call, scene, canvas, heap, scan, shots>>

NextScan ==
  \/ \E size \in ScanSizes : CreateGrid(size)
  \/ \E margin \in {0, 1}, color \in BoxColors : DrawBox(margin, color)
  \/ \E x \in Window, y \in Window, z \in Window, value \in WriteValues :
       SetVoxel(x, y, z, value)
  \/ FinishPlain
  \/ \E split \in Splits : StartScan(split)
  \/ \E w \in {1, 2} : VisitCell(w)
  \/ FinishScan
  \/ Reset

SpecScan == Init /\ [][NextScan]_vars

\* ---- render calls one after another on one canvas context ----
\* the drawing state of a 2d context as the component leaves it before it
\* calls render: the background fill style, the floor grid stroke style
\* and line width. A plain colour is written as a fill style is, as the
\* colour blended with itself.
ctx0 ==
  [fillStyle |-> [name |-> "background", id |-> 0,
                  c1 |-> "#0a0a12", c2 |-> "#0a0a12", t |-> 0],
   strokeStyle |-> "floor", lineWidth |-> 1]

\* a render that assigns ctx.fillStyle after ctx.fill(): a face is filled
\* in the style the context was left in
paint_StaleStyle(ctx, c, options) ==
  LET stroking == options.wireframe /\ ~c.threw
      used == [j \in 1..Len(c.fills) |->
                 IF j = 1 THEN ctx.fillStyle ELSE c.fills[j - 1].style]
  IN [calls |->
        [j \in 1..Len(c.fills) |->
           [op |-> "fill", path |-> c.fills[j].verts, style |-> used[j],
            width |-> ctx.lineWidth]]
          \o [j \in 1..Len(c.strokes) |->
                [op |-> "stroke",
                 path |-> << c.strokes[j].from, c.strokes[j].to >>,
                 style |-> "wire", width |-> 1]],
      ctx |->
        [fillStyle |-> IF c.fills = <<>> THEN ctx.fillStyle
                       ELSE c.fills[Len(c.fills)].style,
         strokeStyle |-> IF stroking THEN "wire" ELSE ctx.strokeStyle,
         lineWidth |-> IF stroking THEN 1 ELSE ctx.lineWidth]]

\* what the calls c of one render do to the context ctx they are made on:
\* each fill() is painted in the fillStyle assigned just before it (line
\* 618), each stroke() in the strokeStyle and lineWidth assigned at the head
\* of the wireframe block (lines 630-631; "wire" is options.wireframeColor
\* or its default, the width options.wireframeWidth or 1); the context
\* keeps the last values assigned
paint(ctx, c, options) ==
  LET stroking == options.wireframe /\ ~c.threw
  IN [calls |->
        [j \in 1..Len(c.fills) |->
           [op |-> "fill", path |-> c.fills[j].verts,
            style |-> c.fills[j].style, width |-> ctx.lineWidth]]
          \o [j \in 1..Len(c.strokes) |->
                [op |-> "stroke",
                 path |-> << c.strokes[j].from, c.strokes[j].to >>,
                 style |-> "wire", width |-> 1]],
      ctx |->
        [fillStyle |-> IF c.fills = <<>> THEN ctx.fillStyle
                       ELSE c.fills[Len(c.fills)].style,
         strokeStyle |-> IF stroking THEN "wire" ELSE ctx.strokeStyle,
         lineWidth |-> IF stroking THEN 1 ELSE ctx.lineWidth]]

\* the context as the calls made so far left it
Ctx == IF shots = <<>> THEN ctx0 ELSE shots[Len(shots)].ctx

\* the mesh of a grid without voxels
EmptyMesh == generateMesh(createGrid(1), FALSE)

\* the calls made one after another: the mesh of the grid under the identity
\* and the oblique view with each pair of flags, lit from above, and the
\* empty mesh
RepeatOptions ==
  [width : {4}, height : {2}, wireframe : BOOLEAN, showFaces : BOOLEAN,
   palette : {"default"}, lightDir : { <<0, 1, 0>> }, ambient : {3}]
RepeatScenes ==
  [own : {TRUE},
   transform : { identity,
                 << 1, 0, 1, 0,  0, 1, 1, 0,  0, 0, 1, 0,  0, 0, 0, 1 >> },
   options : RepeatOptions]
  \cup
  [own : {FALSE}, transform : {identity},
   options : { o \in RepeatOptions : o.wireframe /\ o.showFaces }]

\* Renderer.render(ctx, m, transform, options) on the context the earlier
\* calls drew on; m is the mesh of the grid or the empty mesh. A shot keeps
\* the arguments as they were before the call, the draw calls as painted and
\* the context after the call. render assigns to none of its arguments.
RenderAgain(s) ==
  /\ pc \in {"meshed", "repeated"}
  /\ Len(shots) < MaxRenders
  /\ \E m \in {IF s.own THEN mesh ELSE EmptyMesh} :
       \E c \in {render(m, s.transform, s.options)} :
         \E p \in {paint(Ctx, c, s.options)} :
           shots' = Append(shots, [m |-> m, own |-> s.own,
                                   transform |-> s.transform,
                                   options |-> s.options,
                                   calls |-> p.calls, ctx |-> p.ctx])
  /\ pc' = "repeated"
  /\ UNCHANGED <<grid, hollow, hollow2, mesh, meshArg, probe, writes, call,
                 scene, canvas, heap, scan>>

NextRepeat ==
  \/ CreateGrid(1)
  \/ DrawBox(0, 5)
  \/ FinishPlain
  \/ GenerateMesh(FALSE)
  \/ \E s \in RepeatScenes : RenderAgain(s)
  \/ Reset

SpecRepeat == Init /\ [][NextRepeat]_vars

\* ---- reading a grid and a mesh ----
Coords(g) == 0..(g.size - 1)

\* the 6 axis directions
Dirs == { <<0, 1, 0>>, <<0, -1, 0>>, <<0, 0, 1>>, <<0, 0, -1>>,
          <<1, 0, 0>>, <<-1, 0, 0>> }

\* the exposed faces of g: a nonzero voxel p and a direction d whose
\* neighbour cell is empty or out of range
Exposed(g) ==
  { f \in (Coords(g) \X Coords(g) \X Coords(g)) \X Dirs :
      /\ Cell(g, f[1][1], f[1][2], f[1][3]) # 0
      /\ Cell(g, f[1][1] + f[2][1], f[1][2] + f[2][2], f[1][3] + f[2][3]) = 0 }

\* one coordinate of the corners of the unit cube at c on its side d
Side(c, d) == IF d = 1 THEN {c + 1} ELSE IF d = -1 THEN {c} ELSE {c, c + 1}

\* the 4 corners of face f = <<p, d>>
Corners(f) ==
  Side(f[1][1], f[2][1]) \X Side(f[1][2], f[2][2]) \X Side(f[1][3], f[2][3])

NumVerts(m) == Len(m.vertices) \div 3
NumTris(m) == Len(m.faces) \div 3
Vertex(m, i) ==
  << m.vertices[3 * i + 1], m.vertices[3 * i + 2], m.vertices[3 * i + 3] >>
Tri(m, k) == << m.faces[3 * k + 1], m.faces[3 * k + 2], m.faces[3 * k + 3] >>

\* quad q of a mesh: vertices 4q..4q+3
NumQuads(m) == NumVerts(m) \div 4
Quad(m, q) ==
  << Vertex(m, 4 * q), Vertex(m, 4 * q + 1),
     Vertex(m, 4 * q + 2), Vertex(m, 4 * q + 3) >>
QuadCorners(m, q) == { Quad(m, q)[j] : j \in 1..4 }
QuadFaces(m) == { Quad(m, q) : q \in 0..(NumQuads(m) - 1) }

\* the grid the last generateMesh call was given
MeshSource == IF meshArg.src = "hollow" THEN hollow ELSE grid

NonZero(g) == { i \in DOMAIN g.data : g.data[i] # 0 }

\* ---- C1 ----
\* C1: generateMesh(g, false) holds exactly one quad (4 fresh vertices, 2
\* triangles 4q,4q+1,4q+2 and 4q,4q+2,4q+3) for each exposed face of g and
\* nothing else: 4 vertices and 2 triangles per exposed face; a single
\* isolated voxel gives 24 vertices and 12 triangles.
C1_OneQuadPerExposedFace ==
  (pc = "meshed" /\ ~meshArg.useSymmetry) =>
    LET E == Exposed(MeshSource)
        n == Cardinality(E)
        faceCorners == { Corners(f) : f \in E }
        quadCorners == { QuadCorners(mesh, q) : q \in 0..(n - 1) }
    IN /\ Len(mesh.vertices) = 3 * 4 * n
       /\ Len(mesh.faces) = 3 * 2 * n
       /\ \A q \in 0..(n - 1) :
            /\ Tri(mesh, 2 * q) = << 4 * q, 4 * q + 1, 4 * q + 2 >>
            /\ Tri(mesh, 2 * q + 1) = << 4 * q, 4 * q + 2, 4 * q + 3 >>
       \* the n quads cover the n distinct exposed faces: one quad each
       /\ Cardinality(faceCorners) = n
       /\ quadCorners = faceCorners
       /\ (Cardinality(NonZero(MeshSource)) = 1 =>
             NumVerts(mesh) = 24 /\ NumTris(mesh) = 12)

\* a single voxel has been meshed without the symmetry optimization
C1_Witness ==
  /\ pc = "meshed" /\ ~meshArg.useSymmetry
  /\ Cardinality(NonZero(MeshSource)) = 1
  /\ NumVerts(mesh) = 24 /\ NumTris(mesh) = 12

\* ---- C2 ----
\* C2: hollowing never changes the visible surface: the quad faces of
\* generateMesh(hollowGrid(g), false) are those of generateMesh(g, false).
C2_HollowKeepsFaceSet ==
  (pc = "meshed" /\ meshArg.src = "hollow" /\ ~meshArg.useSymmetry) =>
    QuadFaces(mesh) = QuadFaces(generateMesh(grid, FALSE))

\* ---- C3 ----
\* g[x,y,z] = g[size-1-x,y,z] for all cells
GenuinelySymmetric(g) ==
  \A x \in Coords(g), y \in Coords(g), z \in Coords(g) :
    Cell(g, x, y, z) = Cell(g, g.size - 1 - x, y, z)

\* how many quads of m have the corner set c
Copies(m, c) ==
  Cardinality({ q \in 0..(NumQuads(m) - 1) : QuadCorners(m, q) = c })

\* C3: for a genuinely symmetric grid flagged symmetric, of any size, the
\* quads of generateMesh(g, true), as sets of 4 positions counted with
\* multiplicity, are those of generateMesh(g, false).
C3_SymmetryKeepsFaces ==
  (/\ pc = "meshed" /\ meshArg.useSymmetry
   /\ MeshSource.symmetric /\ GenuinelySymmetric(MeshSource)) =>
    LET ref == generateMesh(MeshSource, FALSE)
    IN /\ NumQuads(mesh) = NumQuads(ref)
       /\ \A q \in 0..(NumQuads(ref) - 1) :
            Copies(mesh, QuadCorners(ref, q)) = Copies(ref, QuadCorners(ref, q))

\* the same statement for grids of even size, which the code satisfies
C3_EvenSizes ==
  (/\ pc = "meshed" /\ meshArg.useSymmetry
   /\ MeshSource.symmetric /\ GenuinelySymmetric(MeshSource)
   /\ MeshSource.size % 2 = 0) =>
    LET ref == generateMesh(MeshSource, FALSE)
    IN /\ NumQuads(mesh) = NumQuads(ref)
       /\ \A q \in 0..(NumQuads(ref) - 1) :
            Copies(mesh, QuadCorners(ref, q)) = Copies(ref, QuadCorners(ref, q))

\* ---- C4 ----
\* the exposed faces of the half extent x < ceil(size / 2)
ExposedHalf(g) == { f \in Exposed(g) : 2 * f[1][1] < g.size }

\* C4: with symmetric = true and the optimization on, the half-extent scan's
\* n vertices and T triangles come first, followed by n mirrored vertices
\* (size - x, y, z) with the colour of their original and T triangles
\* (i0 + n, i2 + n, i1 + n).
C4_MirrorBlock ==
  (pc = "meshed" /\ meshArg.useSymmetry /\ MeshSource.symmetric) =>
    LET H == ExposedHalf(MeshSource)
        h == Cardinality(H)
        n == 4 * h
        T == 2 * h
        size == MeshSource.size
    IN /\ NumVerts(mesh) = 2 * n /\ Len(mesh.vertices) = 3 * 2 * n
       /\ NumTris(mesh) = 2 * T /\ Len(mesh.faces) = 3 * 2 * T
       /\ Len(mesh.colors) = 2 * n
       \* the originals come first
       /\ { QuadCorners(mesh, q) : q \in 0..(h - 1) } = { Corners(f) : f \in H }
       /\ \A q \in 0..(h - 1) :
            /\ Tri(mesh, 2 * q) = << 4 * q, 4 * q + 1, 4 * q + 2 >>
            /\ Tri(mesh, 2 * q + 1) = << 4 * q, 4 * q + 2, 4 * q + 3 >>
       \* then the mirrored copies
       /\ \A i \in 0..(n - 1) :
            /\ Vertex(mesh, n + i) = << size - Vertex(mesh, i)[1],
                                        Vertex(mesh, i)[2], Vertex(mesh, i)[3] >>
            /\ mesh.colors[n + i + 1] = mesh.colors[i + 1]
       /\ \A k \in 0..(T - 1) :
            Tri(mesh, T + k) = << Tri(mesh, k)[1] + n, Tri(mesh, k)[3] + n,
                                 Tri(mesh, k)[2] + n >>

\* a symmetric grid with exposed faces has been meshed with the optimization
C4_Witness ==
  /\ pc = "meshed" /\ meshArg.useSymmetry /\ MeshSource.symmetric
  /\ NumVerts(mesh) >= 2 * 4 * 2
  /\ NumVerts(mesh) = 2 * 4 * Cardinality(ExposedHalf(MeshSource))

\* ---- C5 ----
\* v is a positive multiple of the direction d
PositiveMultiple(v, d) == \E c \in 1..2 : v = << c * d[1], c * d[2], c * d[3] >>

\* C5: both triangles of the quad emitted for an exposed face in direction d
\* have a lighting normal (p1-p0) x (p2-p0) that is a positive multiple of d.
C5_FacesOutward ==
  (pc = "meshed" /\ ~meshArg.useSymmetry) =>
    \A q \in 0..(NumQuads(mesh) - 1) :
      \E f \in Exposed(MeshSource) :
        /\ Corners(f) = QuadCorners(mesh, q)
        /\ \A t \in {2 * q, 2 * q + 1} :
             PositiveMultiple(normal(mesh, Tri(mesh, t)[1], Tri(mesh, t)[2],
                                     Tri(mesh, t)[3]), f[2])

\* ---- C6 ----
\* hollowGrid(grid) has been computed and is in hollow
HollowDone ==
  \/ pc \in {"hollowed", "rehollowed"}
  \/ pc = "meshed" /\ meshArg.src = "hollow"

\* some cell around (x,y,z) is empty or out of range
SomeEmptyAround(g, x, y, z) ==
  \E j \in 1..6 : Around(g, x, y, z)[j] = 0

\* C6: hollowGrid(g) is a grid of the same size whose cell is the input cell
\* when that is nonzero and has an empty or out-of-range neighbour, and 0
\* otherwise; kept counts the nonzero output cells, removed the nonzero input
\* cells that became 0, and they add up to the nonzero input cells.
C6_HollowResult ==
  HollowDone =>
    /\ hollow.size = grid.size
    /\ DOMAIN hollow.data = DOMAIN grid.data
    /\ \A x \in Coords(grid), y \in Coords(grid), z \in Coords(grid) :
         Cell(hollow, x, y, z) =
           IF Cell(grid, x, y, z) # 0 /\ SomeEmptyAround(grid, x, y, z)
             THEN Cell(grid, x, y, z) ELSE 0
    /\ hollow.stats.kept = Cardinality(NonZero(hollow))
    /\ hollow.stats.removed = Cardinality(NonZero(grid) \ NonZero(hollow))
    /\ hollow.stats.kept + hollow.stats.removed = Cardinality(NonZero(grid))

\* a grid of two materials has been hollowed, and voxels were removed
C6_Witness ==
  /\ HollowDone
  /\ hollow.stats.removed > 0
  /\ \E i \in NonZero(hollow), j \in NonZero(hollow) :
       hollow.data[i] # hollow.data[j]

\* ---- C7 ----
\* C7: a second hollowGrid pass over the first pass's output removes
\* nothing and returns the same cell contents.
C7_HollowIdempotent ==
  pc = "rehollowed" =>
    /\ hollow2.stats.removed = 0
    /\ hollow2.data = hollow.data

\* the second pass ran after a first pass that removed voxels
C7_Witness ==
  /\ pc = "rehollowed"
  /\ hollow.stats.removed > 0
  /\ hollow2.stats.kept > 0

\* ---- C8 ----
FullySolid(g) == \A i \in DOMAIN g.data : g.data[i] # 0

\* C8: a fully solid cube of side s >= 3 keeps 6s^2 - 12s + 8 voxels and
\* loses (s-2)^3; at s = 4: kept 56, removed 8, ratio 56/64.
C8_SolidCube ==
  (HollowDone /\ FullySolid(grid) /\ grid.size >= 3) =>
    LET s == grid.size
    IN /\ hollow.stats.kept = 6 * s * s - 12 * s + 8
       /\ hollow.stats.removed = (s - 2) * (s - 2) * (s - 2)
       /\ (s = 4 =>
             /\ hollow.stats.kept = 56
             /\ hollow.stats.removed = 8
             /\ ~hollow.stats.ratio.nan
             /\ hollow.stats.ratio.num * 64 = 56 * hollow.stats.ratio.den)

\* the solid cube of side 4 has been hollowed
C8_Witness ==
  /\ HollowDone /\ FullySolid(grid) /\ grid.size = 4
  /\ hollow.stats.kept = 56

\* ---- C9 ----
AllAround(p) == \A j \in 1..6 : p.around[j] # 0
OnBoundary(p) ==
  \/ p.x = 0 \/ p.x = p.size - 1
  \/ p.y = 0 \/ p.y = p.size - 1
  \/ p.z = 0 \/ p.z = p.size - 1

\* C9: isInterior is true iff the voxel itself is nonzero and all 6
\* neighbours are nonzero; false on the grid boundary.
C9_InteriorNeedsVoxel ==
  pc = "probed" =>
    /\ probe.result = (probe.self # 0 /\ AllAround(probe))
    /\ (OnBoundary(probe) => ~probe.result)

\* C9 as amended: isInterior is true iff all 6 neighbours are nonzero,
\* whatever the cell itself holds; it is false on the grid boundary.
C9_InteriorIffSurrounded ==
  pc = "probed" =>
    /\ probe.result = AllAround(probe)
    /\ (OnBoundary(probe) => ~probe.result)

\* isInterior answered true for an empty cell with 6 solid neighbours
C9_Witness ==
  /\ pc = "probed"
  /\ probe.self = 0 /\ AllAround(probe)
  /\ probe.result

\* ---- C10 ----
\* C10: stats.ratio is kept/(kept+removed) for a grid with a nonzero voxel
\* and the number 0 for an entirely empty grid.
C10_RatioDefined ==
  HollowDone =>
    LET r == hollow.stats.ratio
        kept == hollow.stats.kept
        removed == hollow.stats.removed
    IN IF NonZero(grid) = {}
         THEN ~r.nan /\ r.num = 0
         ELSE ~r.nan /\ r.num * (kept + removed) = kept * r.den

\* ---- C11 ----
\* the step of a symmetric model builder that flags the grid and mirrors it
MirrorStep == pc = "build" /\ pc' = "built" /\ grid'.symmetric

\* C11: mirrorGrid on a symmetric-flagged grid is a one-directional sparse
\* overlay: a nonzero cell at x < floor(size/2) is copied to size-1-x,
\* overwriting what was there; a zero cell leaves its mirror cell as it
\* was; the cells with x < floor(size/2) and the centre column of an odd
\* size are unchanged.
C11_MirrorOverlay ==
  [][ MirrorStep =>
        LET size == grid.size
            center == size \div 2
        IN /\ grid'.size = size
           /\ \A y \in Coords(grid), z \in Coords(grid) :
                /\ \A x \in 0..(center - 1) :
                     /\ Cell(grid', x, y, z) = Cell(grid, x, y, z)
                     /\ Cell(grid', size - 1 - x, y, z) =
                          IF Cell(grid, x, y, z) # 0
                            THEN Cell(grid, x, y, z)
                            ELSE Cell(grid, size - 1 - x, y, z)
                /\ size % 2 = 1 =>
                     Cell(grid', center, y, z) = Cell(grid, center, y, z)
     ]_vars

\* a mirrored grid where one left cell was copied and another, empty, left
\* cell kept the content of its mirror cell
C11_Witness ==
  /\ pc = "built"
  /\ grid.symmetric
  /\ \E x \in 0..((grid.size \div 2) - 1), y \in Coords(grid), z \in Coords(grid) :
       /\ Cell(grid, x, y, z) = 0
       /\ Cell(grid, grid.size - 1 - x, y, z) # 0
  /\ \E x \in 0..((grid.size \div 2) - 1), y \in Coords(grid), z \in Coords(grid) :
       /\ Cell(grid, x, y, z) # 0
       /\ Cell(grid, grid.size - 1 - x, y, z) = Cell(grid, x, y, z)

\* ---- C12 ----
\* a render call has returned or thrown
Rendered == pc = "rendered"

\* the screen positions of the vertices of the rendered mesh
ScreenVerts == transformedVerts(mesh, scene.transform, scene.options)

\* the signed screen area test value of triangle k of the rendered mesh
Area(k) ==
  cross(ScreenVerts, Tri(mesh, k)[1], Tri(mesh, k)[2], Tri(mesh, k)[3])

\* the undirected edges of the triangles in the set ks
UndirectedEdges(ks) ==
  UNION { { {Tri(mesh, k)[1], Tri(mesh, k)[2]},
            {Tri(mesh, k)[2], Tri(mesh, k)[3]},
            {Tri(mesh, k)[3], Tri(mesh, k)[1]} } : k \in ks }

\* C12: a triangle whose screen-space signed area is <= 0 is culled: it is
\* neither filled nor stroked; in particular a triangle of area exactly 0
\* is culled.
C12_ZeroAreaCulled ==
  Rendered =>
    LET front == { k \in 0..(NumTris(mesh) - 1) : Area(k) > 0 }
    IN /\ \A j \in 1..Len(canvas.fills) :
            \E k \in front : Tri(mesh, k) = canvas.fills[j].indices
       /\ \A j \in 1..Len(canvas.strokes) :
            {canvas.strokes[j].a, canvas.strokes[j].b} \in UndirectedEdges(front)

\* ---- C13 ----
\* three times the average transformed z of the triangle of a fill call
Depth(fill) ==
  ScreenVerts[fill.indices[1]].z + ScreenVerts[fill.indices[2]].z
    + ScreenVerts[fill.indices[3]].z

\* C13: with fill enabled the fill calls are issued in non-increasing
\* average transformed z, the farthest triangle first.
C13_PaintersOrder ==
  Rendered =>
    \A i \in 1..Len(canvas.fills), j \in 1..Len(canvas.fills) :
      i < j => Depth(canvas.fills[i]) >= Depth(canvas.fills[j])

\* fills at three different depths, where a triangle that comes later in
\* the mesh was painted before an earlier one
C13_Witness ==
  /\ Rendered
  /\ scene.options.showFaces
  /\ \E i \in 1..Len(canvas.fills), j \in 1..Len(canvas.fills),
        l \in 1..Len(canvas.fills) :
       /\ i < j /\ j < l
       /\ Depth(canvas.fills[i]) > Depth(canvas.fills[j])
       /\ Depth(canvas.fills[j]) > Depth(canvas.fills[l])
       /\ canvas.fills[i].indices[1] > canvas.fills[j].indices[1]

\* ---- C14 ----
\* the triangles of the rendered mesh that render did not cull
NotCulled ==
  { k \in 0..(NumTris(mesh) - 1) : ~Culled(mesh, ScreenVerts, k) }

C15_NeverFailsOnPalette ==
  (Rendered /\ scene.options.showFaces) =>
    /\ ~canvas.threw
    /\ Len(canvas.fills) = Cardinality(NotCulled)
    /\ \A j \in 1..Len(canvas.fills) : canvas.fills[j].style.id # 0

\* what the code does for the palette names that are not inherited
\* property names: every table has an entry for id 1, which stands in for
\* an id without entry
C15_TablesFallBack ==
  (Rendered /\ scene.options.showFaces
     /\ scene.options.palette \notin Inherited) =>
    /\ ~canvas.threw
    /\ Len(canvas.fills) = Cardinality(NotCulled)
    /\ \A j \in 1..Len(canvas.fills) :
         LET id == mesh.colors[canvas.fills[j].indices[1] + 1]
         IN canvas.fills[j].style.id = IF id \in 1..17 THEN id ELSE 1

\* ---- C16 ----
\* (x,y,z) is a cell of a grid of side size
Inside(size, x, y, z) ==
  x \in 0..(size - 1) /\ y \in 0..(size - 1) /\ z \in 0..(size - 1)

\* the last call was getVoxel at the in-range coordinate the call before
\* it, a setVoxel, wrote
ReadBack ==
  /\ call.op = "getVoxel"
  /\ call.prev[1] = "setVoxel"
  /\ << call.prev[2], call.prev[3], call.prev[4] >> = << call.x, call.y, call.z >>
  /\ Inside(grid.size, call.x, call.y, call.z)

\* C16: for every in-range coordinate and every material id v, getVoxel
\* after setVoxel(g, x, y, z, v) returns v.
C16_RoundTrip == ReadBack => call.value = call.prev[5]

\* C16 as amended: getVoxel returns v for v in 0..255, and v mod 256 for
\* any other integer v.
C16_RoundTripByte ==
  ReadBack =>
    /\ call.prev[5] \in 0..255 => call.value = call.prev[5]
    /\ call.value = call.prev[5] % 256

\* the id 255 read back from a cell of a filled grid
C16_Witness ==
  /\ ReadBack
  /\ call.prev[5] = 255
  /\ call.value = 255
  /\ grid.size = 2

\* ---- C17 ----
\* the last call was setVoxel with some coordinate out of range
WroteOutside ==
  /\ call.op = "setVoxel"
  /\ ~Inside(call.before.size, call.x, call.y, call.z)

\* C17: setVoxel with a coordinate out of range is a silent no-op: every
\* cell has the value it had before, and no error is raised.
C17_OutOfRangeNoOp ==
  WroteOutside =>
    /\ ~call.threw
    /\ grid.size = call.before.size
    /\ \A x \in Coords(grid), y \in Coords(grid), z \in Coords(grid) :
         Cell(grid, x, y, z) = Cell(call.before, x, y, z)

\* a nonzero value written just past the side of a filled grid
C17_Witness ==
  /\ WroteOutside
  /\ call.value # 0
  /\ call.x = grid.size
  /\ Inside(grid.size, 0, call.y, call.z)
  /\ NonZero(grid) # {}

\* ---- C18 ----
\* C18: createGrid(0) is rejected at construction time, an error outcome,
\* instead of returning a grid.
C18_ZeroRejected ==
  (call.op = "createGrid" /\ call.x = 0) => call.threw

\* ---- C19 ----
\* a generateMesh call has returned
Meshed == pc = "meshed"

\* C19: every mesh generateMesh returns is well formed: the length of faces
\* is a multiple of 3, every face index is in 0..numVerts-1 with numVerts
\* the length of vertices over 3, colors has one entry per vertex, and size
\* and symmetric are those of the source grid.
C19_WellFormed ==
  Meshed =>
    /\ Len(mesh.faces) % 3 = 0
    /\ Len(mesh.vertices) % 3 = 0
    /\ \A i \in 1..Len(mesh.faces) :
         mesh.faces[i] \in 0..((Len(mesh.vertices) \div 3) - 1)
    /\ Len(mesh.colors) = Len(mesh.vertices) \div 3
    /\ mesh.size = MeshSource.size
    /\ mesh.symmetric = MeshSource.symmetric

\* a mesh with a mirrored half, made from a hollowed symmetric grid
C19_Witness ==
  /\ Meshed
  /\ meshArg.useSymmetry
  /\ meshArg.src = "hollow"
  /\ mesh.symmetric
  /\ Len(mesh.faces) >= 24

\* ---- C20 ----
\* the grids that differ from g in at most one cell with x >= size/2, which
\* holds 0 or 1 instead: they agree with g on every cell with x < size/2
RightHalfEdits(g) ==
  { setVoxel(g, x, y, z, v) :
      x \in { c \in Coords(g) : 2 * c >= g.size },
      y \in Coords(g), z \in Coords(g), v \in {0, 1} }

\* C20: for two symmetric-flagged grids of equal size that agree on every
\* cell with x < size/2, generateMesh(., true) returns identical meshes:
\* the cells with x >= size/2 have no influence on the output.
C20_LeftHalfAuthoritative ==
  (Meshed /\ meshArg.useSymmetry /\ MeshSource.symmetric) =>
    \A g2 \in RightHalfEdits(MeshSource) : generateMesh(g2, TRUE) = mesh

\* ---- C21 ----
\* a call on a grid object has returned (and a write may have followed)
HeapDone == pc \in {"h_done", "h_after"}

\* C21: hollowGrid and generateMesh leave every cell, the size and the
\* symmetric flag of their argument unchanged; the grid hollowGrid returns
\* shares no storage with its argument: a later setVoxel on one does not
\* change the other; mirrorGrid mutates and returns the object it was given.
C21_PureOrInPlace ==
  HeapDone =>
    /\ (heap.op \in {"hollowGrid", "generateMesh"} /\ heap.touched # "input")
         => Deref(heap, heap.input) = heap.pre
    /\ (heap.op = "hollowGrid" /\ heap.touched # "output")
         => Deref(heap, heap.output) = heap.post
    /\ heap.op = "hollowGrid" => heap.output # heap.input
    /\ heap.op = "mirrorGrid" =>
         /\ heap.output = heap.input
         /\ pc = "h_done" =>
              Deref(heap, heap.input) =
                mirrorGrid([heap.pre EXCEPT !.symmetric = TRUE])
         /\ Deref(heap, heap.output) = Deref(heap, heap.input)

\* a solid grid of side 3 was hollowed, which removed its centre voxel, and
\* a write then changed the argument, not the result
C21_Witness ==
  /\ pc = "h_after"
  /\ heap.op = "hollowGrid"
  /\ heap.touched = "input"
  /\ heap.pre.size = 3
  /\ heap.post.data # heap.pre.data
  /\ Deref(heap, heap.input) # heap.pre

\* ---- C22 ----
\* C22: the result of hollowGrid, its cells and its removed and kept
\* counts, is the same under any order of visiting the cells, including any
\* interleaving of workers that each process their own cells.
C22_OrderIndependent ==
  pc = "scanned" => hollow = hollowGrid(grid)

\* a scan that left hollowGrid's order and removed a voxel
C22_Witness ==
  /\ pc = "scanned"
  /\ scan.reordered
  /\ hollow.stats.removed > 0
  /\ hollow.stats.kept > 0

\* ---- C23 ----
\* the number of quads the scan emitted: all of them, or the first half
\* when the mirror block ran
ScannedQuads ==
  IF mesh.symmetric /\ meshArg.useSymmetry
    THEN NumQuads(mesh) \div 2 ELSE NumQuads(mesh)

\* the voxel whose face the scanned quad q is: the quad lies in a plane
\* across axis a, between the cell at its least corner and the cell below
\* that one along a; the emitter is the solid one of the two
Emitter(q) ==
  LET a == Vertex(mesh, 4 * q)
      b == Vertex(mesh, 4 * q + 1)
      c == Vertex(mesh, 4 * q + 2)
      d == Vertex(mesh, 4 * q + 3)
      Least(i) ==
        LET ab == IF a[i] <= b[i] THEN a[i] ELSE b[i]
            cd == IF c[i] <= d[i] THEN c[i] ELSE d[i]
        IN IF ab <= cd THEN ab ELSE cd
      least == << Least(1), Least(2), Least(3) >>
      axis == IF a[1] = b[1] /\ b[1] = c[1] /\ c[1] = d[1] THEN 1
              ELSE IF a[2] = b[2] /\ b[2] = c[2] /\ c[2] = d[2] THEN 2
              ELSE 3
      below == [least EXCEPT ![axis] = @ - 1]
  IN IF /\ Cell(MeshSource, least[1], least[2], least[3]) # 0
        /\ Cell(MeshSource, below[1], below[2], below[3]) = 0
       THEN least ELSE below

\* C23: in every mesh of generateMesh the 4 vertices of a quad carry one
\* colour id, the material id of the voxel that emitted the face; so for
\* every triangle, original or mirrored, the colour at its first vertex
\* index is that material id.
C23_QuadColour ==
  Meshed =>
    /\ \A q \in 0..(NumQuads(mesh) - 1) :
         LET q0 == IF q >= ScannedQuads THEN q - ScannedQuads ELSE q
             e == Emitter(q0)
             id == Cell(MeshSource, e[1], e[2], e[3])
         IN /\ id # 0
            /\ \A j \in 1..4 : mesh.colors[4 * q + j] = id
    /\ \A k \in 0..(NumTris(mesh) - 1) :
         LET i0 == mesh.faces[3 * k + 1]
         IN mesh.colors[i0 + 1] = mesh.colors[4 * (i0 \div 4) + 1]

\* a mesh with a mirrored half and quads of two colour ids
C23_Witness ==
  /\ Meshed
  /\ mesh.symmetric
  /\ meshArg.useSymmetry
  /\ \E i \in 1..Len(mesh.colors), j \in 1..Len(mesh.colors) :
       mesh.colors[i] # mesh.colors[j]

\* ---- C24 ----
\* the mirror block of generateMesh ran on the mesh
Mirrored == Meshed /\ mesh.symmetric /\ meshArg.useSymmetry

\* C24: for every mirrored triangle T+k of generateMesh(g, true) the
\* object-space cross product (p1-p0) x (p2-p0) is that of the original
\* triangle k with the x component negated and y, z unchanged.
C24_MirroredNormals ==
  Mirrored =>
    LET T == NumTris(mesh) \div 2
    IN \A k \in 0..(T - 1) :
         LET o == Tri(mesh, k)
             r == Tri(mesh, T + k)
             n == normal(mesh, o[1], o[2], o[3])
         IN normal(mesh, r[1], r[2], r[3]) = << -n[1], n[2], n[3] >>

\* a mirrored mesh with a triangle whose normal is along x and one whose
\* normal is not
C24_Witness ==
  /\ Mirrored
  /\ \E k \in 0..((NumTris(mesh) \div 2) - 1) :
       normal(mesh, Tri(mesh, k)[1], Tri(mesh, k)[2], Tri(mesh, k)[3])[1] # 0
  /\ \E k \in 0..((NumTris(mesh) \div 2) - 1) :
       normal(mesh, Tri(mesh, k)[1], Tri(mesh, k)[2], Tri(mesh, k)[3])[1] = 0

\* ---- C25 ----
\* the quads of mesh m, each with the colour id of its first vertex; a quad
\* is its 4 corners in template order, which names the voxel face
ColouredQuads(m) ==
  { << Quad(m, q), m.colors[4 * q + 1] >> : q \in 0..(NumQuads(m) - 1) }

\* C25: hollowing never loses exterior surface: every quad face of
\* generateMesh(g, false) is also in generateMesh(hollowGrid(g), false),
\* with the same colour id.
C25_HollowKeepsExterior ==
  (Meshed /\ meshArg.src = "hollow" /\ ~meshArg.useSymmetry) =>
    ColouredQuads(generateMesh(grid, FALSE)) \subseteq ColouredQuads(mesh)

\* the mesh of a hollowed grid that had lost a voxel to the hollowing
C25_Witness ==
  /\ Meshed
  /\ meshArg.src = "hollow"
  /\ ~meshArg.useSymmetry
  /\ hollow.stats.removed > 0
  /\ NumQuads(mesh) > 0

\* ---- C26 ----
\* C26: grid cells are 8-bit: setVoxel at an in-range coordinate stores
\* v mod 256 and a following getVoxel returns it; a nonzero multiple of 256
\* leaves the cell empty; the round trip get(set(v)) = v holds only for
\* 0 <= v <= 255.
C26_EightBit ==
  ReadBack =>
    LET v == call.prev[5]
    IN /\ call.value \in 0..255
       /\ \E k \in -1..1 : v = call.value + 256 * k
       /\ (call.value = v) <=> (v \in 0..255)
       /\ (v # 0 /\ \E k \in {-1, 1} : v = 256 * k) =>
            /\ call.value = 0
            /\ Cell(grid, call.x, call.y, call.z) = 0

\* 256 written over a voxel of a filled grid of side 2 reads back as 0
C26_Witness ==
  /\ ReadBack
  /\ call.prev[5] = 256
  /\ call.value = 0
  /\ grid.size = 2
  /\ Cardinality(NonZero(grid)) = 7

\* ---- C27 ----
\* the positions of the calls of one kind in the draw calls of the last
\* render call
CallsOf(kind) == { j \in 1..Len(canvas.calls) : canvas.calls[j][1] = kind }

\* C27: within one render call no fill call is issued when showFaces is
\* false, no stroke call when wireframe is false, every fill call precedes
\* every stroke call, and a mesh with no vertices yields no draw call.
C27_GatedAndOrdered ==
  Rendered =>
    /\ ~scene.options.showFaces => CallsOf("fill") = {}
    /\ ~scene.options.wireframe => CallsOf("stroke") = {}
    /\ \A i \in CallsOf("fill"), j \in CallsOf("stroke") : i < j
    /\ Len(mesh.vertices) = 0 => canvas.calls = <<>>
    /\ Len(canvas.calls) = Len(canvas.fills) + Len(canvas.strokes)

\* both flags on: fills and strokes were issued in one call
C27_Witness ==
  /\ Rendered
  /\ scene.options.showFaces
  /\ scene.options.wireframe
  /\ CallsOf("fill") # {}
  /\ CallsOf("stroke") # {}

\* ---- C28 ----
\* C28: render keeps no state between calls and does not change its mesh:
\* after any sequence of render calls the mesh is what it was before each of
\* them, and two calls with the same mesh, transform and options issue the
\* same draw calls whatever calls were made in between.
C28_Stateless ==
  pc = "repeated" =>
    /\ \A i \in 1..Len(shots) : shots[i].own => shots[i].m = mesh
    /\ \A i \in 1..Len(shots), j \in 1..Len(shots) :
         ( /\ shots[i].m = shots[j].m
           /\ shots[i].transform = shots[j].transform
           /\ shots[i].options = shots[j].options )
           => shots[i].calls = shots[j].calls

\* the same call made first and third, with fills and strokes: the first on
\* the context as the component left it, the third on the context as a call
\* with another transform and other flags left it
C28_Witness ==
  /\ pc = "repeated"
  /\ Len(shots) = 3
  /\ shots[1].own /\ shots[3].own
  /\ shots[1].transform = shots[3].transform
  /\ shots[1].options = shots[3].options
  /\ shots[1].options.showFaces /\ shots[1].options.wireframe
  /\ shots[1].calls # <<>>
  /\ shots[2].transform # shots[1].transform
  /\ shots[2].own /\ shots[2].options # shots[1].options
  /\ shots[2].calls # <<>>
  /\ shots[2].ctx.fillStyle # ctx0.fillStyle
====
